---- MODULE Spec2Model ----
(***************************************************************************)
(* Model of the trading_signal_ai reporting scripts: the ohlcv price store *)
(* (a SQLite table), the reporting tools of db_tests/analyze_db.py and     *)
(* db_tests/db_stats.py, the cleanup tools of db_tests/clean_database.py   *)
(* and the Alpha Vantage client of src/data_acquisition/fetch_data.py.     *)
(*                                                                         *)
(* SQL values are boxed: NULL is the empty tuple, a ticker is <<"AAPL">>,  *)
(* a date string "YYYY-MM-DD" is <<year, month, day>>, a number is <<n>>.  *)
(* Python's None is the same empty tuple (sqlite3 maps NULL to None).      *)
(*                                                                         *)
(* The store tools are followed one statement at a time: an action is one  *)
(* store call (or clock read) with the local computation that follows it,  *)
(* and between two statements other processes may write to the table, the  *)
(* date may change and the next store call may raise. SpecReport is the    *)
(* two reports, SpecClean the functions and the script of                  *)
(* clean_database.py, SpecDelete and SpecNulls its functions               *)
(* delete_ticker_data and check_for_null_values called on their own,       *)
(* SpecFetch the Alpha Vantage client, SpecCov the coverage arithmetic.    *)
(***************************************************************************)
EXTENDS Integers, Sequences, FiniteSets, TLC

\* ------------------------------------------------------------------ bounds

\* The store holds at most MaxRows rows.
MaxRows == 2

\* The clock advances at most MaxTicks days past ClockStart.
MaxTicks == 2

\* Of the writes of other processes that fall into one run followed (a call,
\* a script, or a call with the call that directly follows it), at most
\* MaxWrites are followed.
MaxWrites == 2

\* ------------------------------------------------------------- SQL values

NULL == <<>>

IsNull(v) == v = NULL

\* ------------------------------------------------- datetime (Python stdlib)

\* datetime._is_leap
IsLeap(y) == (y % 4 = 0) /\ ((y % 100 # 0) \/ (y % 400 = 0))

\* datetime._DAYS_IN_MONTH, with February of a leap year
DaysInMonth(y, m) ==
    IF m = 2 THEN (IF IsLeap(y) THEN 29 ELSE 28)
    ELSE IF m \in {4, 6, 9, 11} THEN 30 ELSE 31

\* datetime._days_before_year
DaysBeforeYear(y) ==
    (y - 1) * 365 + ((y - 1) \div 4) - ((y - 1) \div 100) + ((y - 1) \div 400)

\* datetime._days_before_month
RECURSIVE DaysBeforeMonth(_, _)
DaysBeforeMonth(y, m) ==
    IF m = 1 THEN 0 ELSE DaysBeforeMonth(y, m - 1) + DaysInMonth(y, m - 1)

\* datetime.strptime(s, '%Y-%m-%d') of a well-formed date string, as the
\* proleptic Gregorian ordinal of the resulting datetime (datetime._ymd2ord).
\* strptime(None, ...) raises TypeError: callers test IsNull first.
Strptime(d) == DaysBeforeYear(d[1]) + DaysBeforeMonth(d[1], d[2]) + d[3]

\* datetime._ord2ymd followed by strftime('%Y-%m-%d'): the date string of an
\* ordinal.
Strftime(ordinal) ==
    LET n0   == ordinal - 1
        n400 == n0 \div 146097
        r400 == n0 % 146097
        n100 == r400 \div 36524
        r100 == r400 % 36524
        n4   == r100 \div 1461
        r4   == r100 % 1461
        n1   == r4 \div 365
        n    == r4 % 365
        year == n400 * 400 + 1 + n100 * 100 + n4 * 4 + n1
    IN  IF n1 = 4 \/ n100 = 4
        THEN <<year - 1, 12, 31>>
        ELSE LET leap  == (n1 = 3) /\ ((n4 # 24) \/ (n100 = 3))
                 Before(m) == DaysBeforeMonth(IF leap THEN 4 ELSE 1, m)
                 guess == (n + 50) \div 32
                 month == IF Before(guess) > n THEN guess - 1 ELSE guess
             IN  <<year, month, n - Before(month) + 1>>

\* SQLite's comparison of two non-NULL date strings: bytewise, which for the
\* zero-padded "YYYY-MM-DD" form is the lexicographic order of the fields.
DateLt(a, b) ==
    \/ a[1] < b[1]
    \/ a[1] = b[1] /\ a[2] < b[2]
    \/ a[1] = b[1] /\ a[2] = b[2] /\ a[3] < b[3]

DateLe(a, b) == a = b \/ DateLt(a, b)

\* ------------------------------------------------------- the ohlcv store

Fields == {"ticker", "date", "open", "high", "low", "close", "volume"}

Tickers == {<<"AAPL">>, <<"ABC">>}

\* SQLite's ORDER BY ticker over the ticker values of the model: NULL sorts
\* before every string, strings bytewise.
TickerOrder == <<NULL, <<"AAPL">>, <<"ABC">>>>

Dates == {<<2020, 1, 2>>, <<2022, 5, 1>>, <<2023, 1, 2>>}

CompleteRow(t, d) ==
    [ticker |-> t, date |-> d, open |-> <<10>>, high |-> <<12>>,
     low |-> <<9>>, close |-> <<11>>, volume |-> <<1000>>]

\* The rows a writer may put into the table: every complete row over
\* Tickers x Dates, and the row ("ABC", "2022-05-01") with any one of its
\* seven columns NULL.
Rows ==
    {CompleteRow(t, d) : t \in Tickers, d \in Dates}
    \cup {[CompleteRow(<<"ABC">>, <<2022, 5, 1>>) EXCEPT ![f] = NULL] : f \in Fields}

\* A table content: how many copies of each row it holds (rows differ in
\* their rowid only).
EmptyStore == [r \in Rows |-> 0]

\* The rows a writer puts into the table beside the reports: the complete
\* rows, and the row without ticker, without date and without close.
ReportRows ==
    {r \in Rows : \A f \in Fields \ {"ticker", "date", "close"} : ~IsNull(r[f])}


\* The rows of a table, one <<row, k>> per copy.
Instances(s) == {i \in Rows \X (1..MaxRows) : i[2] <= s[i[1]]}

\* SELECT COUNT(*) FROM ohlcv
CountAll(s) == Cardinality(Instances(s))

\* SQL's  a = b  in a WHERE clause: not true when either side is NULL.
SqlEq(a, b) == ~IsNull(a) /\ ~IsNull(b) /\ a = b

\* SQL's  date >= cutoff  in a WHERE clause.
SqlDateGe(d, cutoff) == ~IsNull(d) /\ ~IsNull(cutoff) /\ DateLe(cutoff, d)

\* ... FROM ohlcv WHERE ticker = ?
TickerRows(s, ticker) == {i \in Instances(s) : SqlEq(i[1].ticker, ticker)}

\* SELECT COUNT(*) as count FROM ohlcv WHERE ticker = ?
CountTicker(s, ticker) == Cardinality(TickerRows(s, ticker))

\* A variant of CountTickerSince whose WHERE clause lacks the ticker.
CountTickerSince_any_ticker(s, ticker, cutoff) ==
    Cardinality({i \in Instances(s) : SqlDateGe(i[1].date, cutoff)})

\* SELECT COUNT(*) as count FROM ohlcv WHERE ticker = ? AND date >= ?
CountTickerSince(s, ticker, cutoff) ==
    Cardinality({i \in TickerRows(s, ticker) : SqlDateGe(i[1].date, cutoff)})

\* SELECT DISTINCT ticker FROM ohlcv ORDER BY ticker, as the fetched list
\* (NULL is one of the distinct values).
SelectDistinctTickers(s) ==
    SelectSeq(TickerOrder, LAMBDA t : \E i \in Instances(s) : i[1].ticker = t)

\* SELECT COUNT(DISTINCT ticker): NULL is not counted.
CountDistinctTicker(s) ==
    Cardinality({i[1].ticker : i \in {j \in Instances(s) : ~IsNull(j[1].ticker)}})

\* The smallest / largest of a non-empty set of non-NULL dates.
DateMin(ds) == CHOOSE d \in ds : \A e \in ds : DateLe(d, e)

DateMax(ds) == CHOOSE d \in ds : \A e \in ds : DateLe(e, d)

\* The dates of a set of row instances, NULLs included / excluded.
DatesOf(rs) == {i[1].date : i \in rs}

NonNullDatesOf(rs) == {d \in DatesOf(rs) : ~IsNull(d)}

\* SELECT date FROM ohlcv WHERE ticker = ? ORDER BY date ASC LIMIT 1, as the
\* result set (no row or one row). SQLite sorts NULL first in ASC order.
SelectDateAscLimit1(s, ticker) ==
    LET rs == TickerRows(s, ticker)
    IN  IF rs = {} THEN <<>>
        ELSE IF NULL \in DatesOf(rs) THEN <<NULL>>
        ELSE <<DateMin(DatesOf(rs))>>

\* SELECT date FROM ohlcv WHERE ticker = ? ORDER BY date DESC LIMIT 1.
\* SQLite sorts NULL last in DESC order.
SelectDateDescLimit1(s, ticker) ==
    LET rs == TickerRows(s, ticker)
    IN  IF rs = {} THEN <<>>
        ELSE IF NonNullDatesOf(rs) = {} THEN <<NULL>>
        ELSE <<DateMax(NonNullDatesOf(rs))>>

\* MIN(date) / MAX(date) over a set of rows: aggregates skip NULL and are
\* NULL when nothing is left.
MinDate(rs) == IF NonNullDatesOf(rs) = {} THEN NULL ELSE DateMin(NonNullDatesOf(rs))

MaxDate(rs) == IF NonNullDatesOf(rs) = {} THEN NULL ELSE DateMax(NonNullDatesOf(rs))

\* AVG / MAX / MIN / SUM of a numeric column over a set of rows, up to the
\* number itself: NULL when every input is NULL, else the box of a number.
Aggregate(rs, f) == IF \A i \in rs : IsNull(i[1][f]) THEN NULL ELSE <<1>>

\* ------------------------------------------------------ Python arithmetic

\* int(x) of the quotient n / d (d > 0): truncation toward zero.
PyInt(n, d) == IF n >= 0 THEN n \div d ELSE -((-n) \div d)

\* a / b: the ratio a : b, or ZeroDivisionError.
TrueDiv(a, b) ==
    IF b = 0 THEN [raised |-> TRUE, num |-> 0, den |-> 0]
    ELSE [raised |-> FALSE, num |-> a, den |-> b]

\* A variant of DateRangeDays that counts both endpoints.
DateRangeDays_inclusive(first_date, last_date) ==
    Strptime(last_date) - Strptime(first_date) + 1

\* (end_date - start_date).days of two parsed date strings
DateRangeDays(first_date, last_date) == Strptime(last_date) - Strptime(first_date)

\* years = date_range_days / 365.0; expected = int(years * 252)
ExpectedTradingDays(date_range_days) == PyInt(date_range_days * 252, 365)

\* A variant of Completeness without the guard on the divisor.
Completeness_unguarded(record_count, expected) == TrueDiv(record_count, expected)

\* record_count / expected if expected > 0 else 0
Completeness(record_count, expected) ==
    IF expected > 0 THEN TrueDiv(record_count, expected) ELSE TrueDiv(0, 1)

\* The coverage figures of a ticker from its first date, last date and record
\* count: date range, expected trading days, completeness.
Coverage(first_date, last_date, record_count) ==
    LET date_range_days == DateRangeDays(first_date, last_date)
        expected == ExpectedTradingDays(date_range_days)
    IN  [date_range_days |-> date_range_days,
         expected |-> expected,
         completeness |-> Completeness(record_count, expected)]

\* (datetime.now() - timedelta(days=3*365)).strftime('%Y-%m-%d')
ThreeYearsAgo(today) == Strftime(today - 3 * 365)

\* datetime(datetime.now().year, 1, 1).strftime('%Y-%m-%d')
YearToDate(today) == <<Strftime(today)[1], 1, 1>>

\* f"{completeness:.1%}" in tenths of a percent: the decimal nearest to
\* 100 * completeness. When 1000 * num / den lies exactly halfway between two
\* tenths the double's rounding error decides, so both neighbours are possible.
PercentTexts(c) ==
    LET q == (1000 * c.num) \div c.den
        r == (1000 * c.num) % c.den
    IN  IF 2 * r < c.den THEN {q}
        ELSE IF 2 * r > c.den THEN {q + 1}
        ELSE {q, q + 1}

\* ------------------------------------------------------------------ calls

\* The record of a call under way: the function (op), the script whose
\* __main__ block made the call ("" for a call from another module), the
\* statement it stands before (pc), its connection, and what it has returned
\* and printed. `writes` is history: how many times other processes have
\* written to the table since the run began.
Call(op, script) ==
    [op |-> op, script |-> script, pc |-> "connect", conn |-> "none",
     error |-> "", ret |-> NULL, printed |-> "", exit_status |-> NULL,
     writes |-> 0]

\* The locals of the functions that walk the tickers.
Locals ==
    [tickers |-> <<>>, i |-> 0, total_count |-> NULL, row |-> NULL,
     ticker_data |-> <<>>, table |-> NULL]

\* What the except branch of a function returns.
FailureFlag(op) ==
    IF op \in {"delete_ticker_data", "analyze_tickers"} THEN 0 ELSE FALSE

\* What the except branch of a function prints.
ErrorMessage(op) ==
    CASE op = "analyze_database" -> "Error analyzing database"
      [] op = "get_database_statistics" -> "Error getting database statistics"
      [] op = "delete_ticker_data" -> "Error deleting data"
      [] op = "check_for_null_values" -> "Error checking for NULL values"
      [] op = "analyze_tickers" -> "Error analyzing tickers"

\* except Exception as e: print(...); return <failure flag>. The connection is
\* left as it is.
Except(run, error) ==
    [run EXCEPT !.pc = "returned", !.error = error,
                !.ret = <<FailureFlag(run.op)>>, !.printed = ErrorMessage(run.op)]

\* for ticker in tickers: the next pass of the loop, or the statement after it.
NextPass(run, first) ==
    IF run.i < Len(run.tickers)
    THEN [run EXCEPT !.i = @ + 1, !.row = NULL, !.pc = first]
    ELSE [run EXCEPT !.row = NULL, !.pc = "return"]

\* The ticker of the pass under way.
Ticker(run) == run.tickers[run.i]

\* ------------------------------------------- db_tests/analyze_db.py

\* conn = get_db_connection(DB_PATH); cursor = conn.cursor()
analyze_database_connect(run) == [run EXCEPT !.conn = "open", !.pc = "tickers"]

\* SELECT DISTINCT ticker ... ; tickers = [...]
analyze_database_tickers(run, s) ==
    [run EXCEPT !.tickers = SelectDistinctTickers(s), !.pc = "count"]

\* SELECT COUNT(*) ...; the headline; ticker_data = []; into the loop
analyze_database_count(run, s) ==
    NextPass([run EXCEPT !.total_count = <<CountAll(s)>>], "first")

\* earliest_date = cursor.fetchone()['date'] of the ASC query: fetchone() is
\* None when the ticker has no row.
analyze_database_first(run, s) ==
    LET asc == SelectDateAscLimit1(s, Ticker(run))
    IN  IF asc = <<>> THEN Except(run, "TypeError")
        ELSE [run EXCEPT !.row = [first_date |-> asc[1]], !.pc = "last"]

\* latest_date = cursor.fetchone()['date'] of the DESC query
analyze_database_last(run, s) ==
    LET desc == SelectDateDescLimit1(s, Ticker(run))
    IN  IF desc = <<>> THEN Except(run, "TypeError")
        ELSE [run EXCEPT !.row = @ @@ [last_date |-> desc[1]], !.pc = "records"]

\* record_count of the COUNT query, then the parsed dates, the date range, the
\* expected trading days and the completeness.
analyze_database_records(run, s) ==
    LET record_count == CountTicker(s, Ticker(run))
        cov == Coverage(run.row.first_date, run.row.last_date, record_count)
    IN  IF IsNull(run.row.first_date) \/ IsNull(run.row.last_date)
        THEN Except(run, "TypeError")
        ELSE IF cov.completeness.raised THEN Except(run, "ZeroDivisionError")
        ELSE [run EXCEPT !.row = @ @@ [record_count |-> record_count,
                                       date_range_days |-> cov.date_range_days,
                                       expected |-> cov.expected,
                                       completeness |-> cov.completeness],
                         !.pc = "recent"]

\* three_years_ago from the clock, recent_count of the COUNT query, and
\* ticker_data.append({...})
analyze_database_recent(run, s, now) ==
    LET three_years_ago == ThreeYearsAgo(now)
        recent_count == CountTickerSince(s, Ticker(run), three_years_ago)
        row == [Ticker |-> Ticker(run), three_years_ago |-> three_years_ago,
                recent_count |-> recent_count] @@ run.row
    IN  NextPass([run EXCEPT !.ticker_data = Append(@, row)], "first")

\* The table printed, conn.close(), return True.
analyze_database_return(run) ==
    [run EXCEPT !.table = <<run.ticker_data>>, !.conn = "closed",
                !.ret = <<TRUE>>, !.pc = "returned"]

\* ---------------------------------------------- db_tests/db_stats.py

\* Whether an f-string number format (:.2f, :,.0f) accepts the value: None
\* raises TypeError.
Formattable(v) == ~IsNull(v)

\* conn = get_db_connection(DB_PATH); cursor = conn.cursor()
statistics_connect(run) == [run EXCEPT !.conn = "open", !.pc = "total"]

\* SELECT COUNT(*) as count FROM ohlcv
statistics_total(run, s) ==
    [run EXCEPT !.total_count = <<CountAll(s)>>, !.pc = "distinct"]

\* SELECT COUNT(DISTINCT ticker) as count FROM ohlcv
statistics_distinct(run, s) ==
    [run EXCEPT !.ticker_count = <<CountDistinctTicker(s)>>, !.pc = "tickers"]

\* SELECT DISTINCT ticker ... ; tickers = [...]
statistics_tickers(run, s) ==
    [run EXCEPT !.tickers = SelectDistinctTickers(s), !.pc = "range"]

\* SELECT MIN(date), MAX(date) FROM ohlcv and the summary, which parses
\* min_date (None for a table without a dated row) and prints its distance
\* from the clock in days.
statistics_range(run, s, now) ==
    LET min_date == MinDate(Instances(s))
    IN  IF IsNull(min_date) THEN Except(run, "TypeError")
        ELSE NextPass([run EXCEPT !.days_ago = <<now - Strptime(min_date)>>],
                      "aggregate")

\* The aggregate query of a ticker, then the parsed dates, the date range, the
\* expected trading days and the completeness. Without a row of the ticker
\* the aggregates are NULL and the count 0.
statistics_aggregate(run, s) ==
    LET rs == TickerRows(s, Ticker(run))
        first_date == MinDate(rs)
        last_date == MaxDate(rs)
        record_count == Cardinality(rs)
        cov == Coverage(first_date, last_date, record_count)
    IN  IF IsNull(first_date) \/ IsNull(last_date) THEN Except(run, "TypeError")
        ELSE IF cov.completeness.raised THEN Except(run, "ZeroDivisionError")
        ELSE [run EXCEPT !.row = [first_date |-> first_date,
                                  last_date |-> last_date,
                                  record_count |-> record_count,
                                  date_range_days |-> cov.date_range_days,
                                  expected |-> cov.expected,
                                  completeness |-> cov.completeness,
                                  avg_close |-> Aggregate(rs, "close"),
                                  max_high |-> Aggregate(rs, "high"),
                                  min_low |-> Aggregate(rs, "low"),
                                  avg_volume |-> Aggregate(rs, "volume")],
                         !.pc = "recent"]

\* three_years_ago from the clock and recent_count of the COUNT query
statistics_recent(run, s, now) ==
    LET three_years_ago == ThreeYearsAgo(now)
    IN  [run EXCEPT !.row = @ @@ [three_years_ago |-> three_years_ago,
                                  recent_count |->
                                      CountTickerSince(s, Ticker(run), three_years_ago)],
                    !.pc = "ytd"]

\* ytd from the clock, ytd_count of the COUNT query, and
\* ticker_stats.append({...}), which formats the four price figures.
statistics_ytd(run, s, now) ==
    LET ytd == YearToDate(now)
        row == [Ticker |-> Ticker(run), ytd |-> ytd,
                ytd_count |-> CountTickerSince(s, Ticker(run), ytd)] @@ run.row
    IN  IF ~Formattable(row.avg_close) \/ ~Formattable(row.max_high)
           \/ ~Formattable(row.min_low) \/ ~Formattable(row.avg_volume)
        THEN Except(run, "TypeError")
        ELSE NextPass([run EXCEPT !.ticker_data = Append(@, row)], "aggregate")

\* The batches printed, conn.close(), return True.
statistics_return(run) ==
    [run EXCEPT !.table = <<run.ticker_data>>, !.conn = "closed",
                !.ret = <<TRUE>>, !.pc = "returned"]

\* ------------------------------------------ db_tests/clean_database.py

\* A variant of DeleteTicker without the WHERE clause.
DeleteTicker_all_rows(s, ticker) == [r \in Rows |-> 0]

\* DELETE FROM ohlcv WHERE ticker = ?
DeleteTicker(s, ticker) ==
    [r \in Rows |-> IF SqlEq(r.ticker, ticker) THEN 0 ELSE s[r]]

\* conn = get_db_connection(DB_PATH); cursor = conn.cursor()
delete_ticker_data_connect(run) ==
    [run EXCEPT !.conn = "open", !.pc = "count_before"]

\* count_before of the COUNT query
delete_ticker_data_count_before(run, s) ==
    [run EXCEPT !.count_before = <<CountTicker(s, run.ticker)>>, !.pc = "delete"]

\* cursor.execute("DELETE ..."): the statement opens a transaction and removes
\* the ticker's rows in it; `removed` is the statement's row count.
delete_ticker_data_delete(run, s) ==
    [run EXCEPT !.removed = <<CountTicker(s, run.ticker)>>, !.pc = "commit"]

\* conn.commit()
delete_ticker_data_commit(run) == [run EXCEPT !.pc = "count_after"]

\* count_after of the COUNT query
delete_ticker_data_count_after(run, s) ==
    [run EXCEPT !.count_after = <<CountTicker(s, run.ticker)>>, !.pc = "return"]

\* deleted_count = count_before - count_after, the message, conn.close(),
\* return deleted_count
delete_ticker_data_return(run) ==
    [run EXCEPT !.ret = <<run.count_before[1] - run.count_after[1]>>,
                !.printed = "Deleted", !.conn = "closed", !.pc = "returned"]

\* A variant of HasNull whose WHERE clause lacks  volume IS NULL.
HasNull_but_volume(r) ==
    \/ IsNull(r.ticker) \/ IsNull(r.date) \/ IsNull(r.open) \/ IsNull(r.high)
    \/ IsNull(r.low) \/ IsNull(r.close)

\* A row with a NULL in any of the seven columns.
HasNull(r) ==
    \/ IsNull(r.ticker) \/ IsNull(r.date) \/ IsNull(r.open) \/ IsNull(r.high)
    \/ IsNull(r.low) \/ IsNull(r.close) \/ IsNull(r.volume)

\* A variant of SelectNullGroups that groups by ticker alone.
SelectNullGroups_by_ticker(s) ==
    LET bad == {i \in Instances(s) : HasNull_but_volume(i[1]) \/ IsNull(i[1].volume)}
    IN  {[ticker |-> t,
          date |-> (CHOOSE i \in bad : i[1].ticker = t)[1].date,
          count |-> Cardinality({i \in bad : i[1].ticker = t})]
         : t \in {i[1].ticker : i \in bad}}

\* SELECT ticker, date, COUNT(*) as count FROM ohlcv WHERE ... IS NULL OR ...
\* GROUP BY ticker, date: the fetched rows (GROUP BY puts NULLs in one group).
SelectNullGroups(s) ==
    LET bad == {i \in Instances(s) : HasNull(i[1])}
    IN  {[ticker |-> k[1], date |-> k[2],
          count |-> Cardinality({i \in bad : i[1].ticker = k[1] /\ i[1].date = k[2]})]
         : k \in {<<i[1].ticker, i[1].date>> : i \in bad}}

\* conn = get_db_connection(DB_PATH); cursor = conn.cursor()
check_for_null_values_connect(run) == [run EXCEPT !.conn = "open", !.pc = "select"]

\* The query and null_records = cursor.fetchall()
check_for_null_values_select(run, s) ==
    [run EXCEPT !.null_records = <<SelectNullGroups(s)>>, !.pc = "return"]

\* if null_records: the records printed, conn.close(), return False;
\* else: the message, conn.close(), return True
check_for_null_values_return(run) ==
    [run EXCEPT !.ret = <<run.null_records[1] = {}>>,
                !.printed = IF run.null_records[1] # {} THEN "Found NULL values"
                            ELSE "No NULL values found",
                !.conn = "closed", !.pc = "returned"]

\* conn = get_db_connection(DB_PATH); cursor = conn.cursor()
analyze_tickers_connect(run) == [run EXCEPT !.conn = "open", !.pc = "tickers"]

\* SELECT DISTINCT ticker ... ; tickers = [...]
analyze_tickers_tickers(run, s) ==
    [run EXCEPT !.tickers = SelectDistinctTickers(s), !.pc = "count"]

\* SELECT COUNT(*) ...; the headline and the AAPL line; ticker_data = [];
\* into the loop
analyze_tickers_count(run, s) ==
    NextPass([run EXCEPT !.total_count = <<CountAll(s)>>,
                         !.printed = IF \E k \in 1..Len(run.tickers) :
                                            run.tickers[k] = <<"AAPL">>
                                     THEN "WARNING: AAPL is still in the database"
                                     ELSE "AAPL has been successfully removed"],
             "first")

\* earliest_date = cursor.fetchone()['date'] of the ASC query
analyze_tickers_first(run, s) ==
    LET asc == SelectDateAscLimit1(s, Ticker(run))
    IN  IF asc = <<>> THEN Except(run, "TypeError")
        ELSE [run EXCEPT !.row = [first_date |-> asc[1]], !.pc = "last"]

\* latest_date = cursor.fetchone()['date'] of the DESC query
analyze_tickers_last(run, s) ==
    LET desc == SelectDateDescLimit1(s, Ticker(run))
    IN  IF desc = <<>> THEN Except(run, "TypeError")
        ELSE [run EXCEPT !.row = @ @@ [last_date |-> desc[1]], !.pc = "records"]

\* record_count of the COUNT query and ticker_data.append({...})
analyze_tickers_records(run, s) ==
    LET row == [Ticker |-> Ticker(run),
                record_count |-> CountTicker(s, Ticker(run))] @@ run.row
    IN  NextPass([run EXCEPT !.ticker_data = Append(@, row)], "first")

\* The table printed, conn.close(), return len(tickers)
analyze_tickers_return(run) ==
    [run EXCEPT !.table = <<run.ticker_data>>, !.conn = "closed",
                !.ret = <<Len(run.tickers)>>, !.pc = "returned"]

\* The __main__ block of clean_database.py after delete_ticker_data('AAPL')
\* has returned: deleted_count is kept and check_for_null_values() called.
\* `failed` is history: whether a call of the script has ended in its except
\* branch.
clean_database_main_check(run) ==
    [Call("check_for_null_values", run.script) EXCEPT !.writes = run.writes]
    @@ [null_records |-> NULL, deleted_count |-> run.ret, no_nulls |-> NULL,
        failed |-> (run.error # "")]

\* ... after check_for_null_values() has returned: no_nulls is kept and
\* analyze_tickers() called.
clean_database_main_analyze(run) ==
    [Call("analyze_tickers", run.script) EXCEPT !.writes = run.writes]
    @@ Locals @@ [deleted_count |-> run.deleted_count, no_nulls |-> run.ret,
                  failed |-> (run.failed \/ run.error # "")]

\* ... after analyze_tickers() has returned: the summary, and the end of the
\* script, which never calls sys.exit.
clean_database_main_summary(run) ==
    [run EXCEPT !.pc = "exited", !.exit_status = <<0>>,
                !.failed = (run.failed \/ run.error # "")]
    @@ [ticker_count |-> run.ret,
        successful |-> (run.ret[1] = 21 /\ run.no_nulls[1])]

\* The __main__ blocks of analyze_db.py and db_stats.py after the call: the
\* returned flag is dropped and the script ends.
report_main_end(run) == [run EXCEPT !.pc = "exited", !.exit_status = <<0>>]

\* ------------------------------- src/data_acquisition/fetch_data.py

\* What the try block of a function yields: a value, or a raised exception.
Ok(v) == [error |-> "", value |-> v]

Raise(e) == [error |-> e, value |-> NULL]

Symbols == {"AAPL", "MSFT"}

OutputSizes == {"compact", "full"}

\* A parsed JSON value, as far as the client looks at it: its Python type,
\* the strings x for which  x in data  is true (keys of a dict, items of a
\* list, substrings of a str), and, of a dict, the shape of the value under
\* "Time Series (Daily)".
Json(kind, members, series) == [kind |-> kind, members |-> members, series |-> series]

JsonValues ==
    {Json("dict", m, "none") : m \in SUBSET {"Error Message", "Note"}}
    \cup {Json("dict", m \cup {"Time Series (Daily)"}, sh) :
            m \in SUBSET {"Error Message"},
            sh \in {"days", "empty", "no_open", "not_dict"}}
    \cup {Json("list", m, "none") : m \in SUBSET {"Error Message"}}
    \cup {Json("str", m, "none") : m \in SUBSET {"Error Message", "Time Series (Daily)"}}
    \cup {Json("int", {}, "none"), Json("NoneType", {}, "none")}

\* What the network yields for a GET: no response at all (requests raises), or
\* a status code with a body that parses as JSON or does not.
Responses ==
    {[net |-> n, status |-> 0, valid |-> FALSE, data |-> NULL] :
        n \in {"ConnectionError", "Timeout"}}
    \cup {[net |-> "ok", status |-> st, valid |-> FALSE, data |-> NULL] :
            st \in {200, 404, 500}}
    \cup {[net |-> "ok", status |-> st, valid |-> TRUE, data |-> d] :
            st \in {200, 404, 500}, d \in JsonValues}

\* A variant of RaisesForStatus that lets 4XX responses through.
RaisesForStatus_5xx_only(status) == 500 <= status /\ status < 600

\* response.raise_for_status(): HTTPError for a 4XX/5XX status.
RaisesForStatus(status) == 400 <= status /\ status < 600

\* key in data: a membership test, or TypeError for a value that is no
\* container.
In(key, data) ==
    IF data.kind \in {"dict", "list", "str"} THEN Ok(key \in data.members)
    ELSE Raise("TypeError")

\* The configurations configs/data_sources.yaml may hold, as far as the client
\* reads them: the key and the output format.
Configs == [api_key : {"KEY"}, output_format : {"json", "csv"}]

\* AlphaVantageAPI(api_key): the key given, the format 'json'.
ClientWithKey(api_key) == [api_key |-> api_key, output_format |-> "json"]

\* AlphaVantageAPI(): key and format from the configuration.
ClientFromConfig(config) ==
    [api_key |-> config.api_key, output_format |-> config.output_format]

Clients == {ClientWithKey("KEY")} \cup {ClientFromConfig(c) : c \in Configs}

\* The params of the GET request of get_daily_time_series.
RequestParams(client, symbol, outputsize) ==
    [function |-> "TIME_SERIES_DAILY", symbol |-> symbol, outputsize |-> outputsize,
     apikey |-> client.api_key, datatype |-> client.output_format]

\* The exception response.json() raises for a body that is not JSON, which
\* depends on the installed requests: its own JSONDecodeError (a
\* RequestException and a json.JSONDecodeError), json's, or simplejson's (a
\* ValueError only).
JsonErrors ==
    {"requests.JSONDecodeError", "json.JSONDecodeError", "simplejson.JSONDecodeError"}

\* The try block of get_daily_time_series on a response: the exception it
\* runs into, or the value it returns (None, or the box <<data>> of the body).
\* data['Error Message'] of a list or a str raises TypeError.
get_daily_time_series_try(response, json_error) ==
    IF response.net # "ok" THEN Raise("RequestException")
    ELSE IF RaisesForStatus(response.status) THEN Raise("RequestException")
    ELSE IF ~response.valid THEN Raise(json_error)
    ELSE LET has == In("Error Message", response.data)
         IN  IF has.error # "" THEN Raise(has.error)
             ELSE IF has.value /\ response.data.kind # "dict" THEN Raise("TypeError")
             ELSE IF has.value THEN [error |-> "", value |-> NULL, logged |-> "Alpha Vantage API error"]
             ELSE [error |-> "", value |-> <<response.data>>, logged |-> "Successfully fetched"]

\* get_daily_time_series(symbol, outputsize) on a response: every exception
\* of the try block is caught by one of the three except clauses, which log
\* and return None. `raised` is the exception that leaves the function.
get_daily_time_series(response, json_error) ==
    LET t == get_daily_time_series_try(response, json_error)
    IN  IF t.error = "" THEN [ret |-> t.value, raised |-> "", logged |-> t.logged]
        ELSE IF t.error \in {"RequestException", "requests.JSONDecodeError"}
             THEN [ret |-> NULL, raised |-> "", logged |-> "Request error"]
        ELSE IF t.error = "json.JSONDecodeError"
             THEN [ret |-> NULL, raised |-> "", logged |-> "JSON decode error"]
        ELSE [ret |-> NULL, raised |-> "", logged |-> "Unexpected error"]

\* test_alpha_vantage_api(ticker) after the client was built: True when the
\* data has a daily series whose latest day has the five fields and the
\* sample file could be written; every exception is caught and gives False.
test_alpha_vantage_api(response, json_error, file_ok) ==
    LET ret == get_daily_time_series(response, json_error).ret
        data == ret[1]
        has == In("Time Series (Daily)", data)
    IN  IF IsNull(ret) THEN FALSE
        ELSE IF has.error # "" THEN FALSE
        ELSE IF ~has.value THEN FALSE
        ELSE IF data.kind # "dict" THEN FALSE
        ELSE IF data.series # "days" THEN FALSE
        ELSE file_ok

\* sys.exit(0 if success else 1)
ExitStatus(success) == IF success THEN 0 ELSE 1

\* ------------------------------------------------------------------ state

VARIABLES
    store,   \* the ohlcv table: copies held of each row
    today,   \* the date datetime.now() falls on, as an ordinal
    http,    \* the GET request in flight and its response
    last     \* the call or script run under observation: its locals, and what
             \* it has returned and printed

vars == <<store, today, http, last>>

\* The first date of the clock.
ClockStart == <<2022, 12, 31>>

Idle == [op |-> "none"]

NoRequest == [state |-> "none"]

Init ==
    /\ store = EmptyStore
    /\ today = Strptime(ClockStart)
    /\ http = NoRequest
    /\ last = Idle

\* One call is followed statement by statement in `last`; every other process
\* takes part through what it commits to the table (Insert, OtherDelete), at
\* any point between two statements of the call followed.
Ready == last = Idle

\* The call followed stands before the statement pc of the function op.
At(op, pc) == last # Idle /\ last.op = op /\ last.pc = pc

\* Between its DELETE and its commit the call followed holds SQLite's write
\* lock: no other connection can write.
WriteLocked == At("delete_ticker_data", "commit")

\* The bound MaxWrites on the writes of other processes within one run.
WritesLeft == IF last = Idle THEN TRUE ELSE last.writes < MaxWrites

\* The run followed has seen another process write.
Raced(run) == IF run = Idle THEN run ELSE [run EXCEPT !.writes = @ + 1]

\* ------------------------------------------------------------ environment

\* Another process (the ingestion side, not part of these scripts) inserts a
\* row and commits.
Insert(r) ==
    /\ ~WriteLocked
    /\ WritesLeft
    /\ CountAll(store) < MaxRows
    /\ store' = [store EXCEPT ![r] = @ + 1]
    /\ last' = Raced(last)
    /\ UNCHANGED <<today, http>>

\* Another process runs delete_ticker_data(ticker): its DELETE and commit.
OtherDelete(ticker) ==
    /\ ~WriteLocked
    /\ WritesLeft
    /\ CountTicker(store, ticker) > 0
    /\ store' = DeleteTicker(store, ticker)
    /\ last' = Raced(last)
    /\ UNCHANGED <<today, http>>

\* Midnight passes.
Tick ==
    /\ today < Strptime(ClockStart) + MaxTicks
    /\ today' = today + 1
    /\ UNCHANGED <<store, http, last>>

\* The caller of the finished call or script moves on; nothing of it is kept.
Finish ==
    /\ last # Idle
    /\ http = NoRequest
    /\ IF last.op \in {"get_daily_time_series", "test_alpha_vantage.py"} THEN TRUE
       ELSE IF last.pc = "returned" THEN last.script = ""
       ELSE last.pc = "exited"
    /\ last' = Idle
    /\ UNCHANGED <<store, today, http>>

\* A store call (get_db_connection, cursor.execute, conn.commit) of the call
\* followed raises, e.g. sqlite3.OperationalError: the except branch runs. A
\* DELETE not yet committed is rolled back when the connection is dropped.
StoreCallRaises ==
    /\ last # Idle
    /\ last.op \in {"analyze_database", "get_database_statistics",
                    "delete_ticker_data", "check_for_null_values", "analyze_tickers"}
    /\ last.pc \notin {"return", "returned", "exited"}
    /\ last' = Except(last, "sqlite3.Error")
    /\ UNCHANGED <<store, today, http>>

\* -------------------------------------------- db_tests/analyze_db.py

\* python db_tests/analyze_db.py: the __main__ block calls analyze_database()
AnalyzeDbMain ==
    /\ Ready
    /\ last' = Call("analyze_database", "analyze_db.py") @@ Locals
    /\ UNCHANGED <<store, today, http>>

AnalyzeDatabaseConnect ==
    /\ At("analyze_database", "connect")
    /\ last' = analyze_database_connect(last)
    /\ UNCHANGED <<store, today, http>>

AnalyzeDatabaseTickers ==
    /\ At("analyze_database", "tickers")
    /\ last' = analyze_database_tickers(last, store)
    /\ UNCHANGED <<store, today, http>>

AnalyzeDatabaseCount ==
    /\ At("analyze_database", "count")
    /\ last' = analyze_database_count(last, store)
    /\ UNCHANGED <<store, today, http>>

AnalyzeDatabaseFirst ==
    /\ At("analyze_database", "first")
    /\ last' = analyze_database_first(last, store)
    /\ UNCHANGED <<store, today, http>>

AnalyzeDatabaseLast ==
    /\ At("analyze_database", "last")
    /\ last' = analyze_database_last(last, store)
    /\ UNCHANGED <<store, today, http>>

AnalyzeDatabaseRecords ==
    /\ At("analyze_database", "records")
    /\ last' = analyze_database_records(last, store)
    /\ UNCHANGED <<store, today, http>>

AnalyzeDatabaseRecent ==
    /\ At("analyze_database", "recent")
    /\ last' = analyze_database_recent(last, store, today)
    /\ UNCHANGED <<store, today, http>>

AnalyzeDatabaseReturn ==
    /\ At("analyze_database", "return")
    /\ last' = analyze_database_return(last)
    /\ UNCHANGED <<store, today, http>>

\* ------------------------------------------------ db_tests/db_stats.py

\* python db_tests/db_stats.py: the __main__ block calls
\* get_database_statistics()
DbStatsMain ==
    /\ Ready
    /\ last' = Call("get_database_statistics", "db_stats.py") @@ Locals
               @@ [ticker_count |-> NULL, days_ago |-> NULL]
    /\ UNCHANGED <<store, today, http>>

StatisticsConnect ==
    /\ At("get_database_statistics", "connect")
    /\ last' = statistics_connect(last)
    /\ UNCHANGED <<store, today, http>>

StatisticsTotal ==
    /\ At("get_database_statistics", "total")
    /\ last' = statistics_total(last, store)
    /\ UNCHANGED <<store, today, http>>

StatisticsDistinct ==
    /\ At("get_database_statistics", "distinct")
    /\ last' = statistics_distinct(last, store)
    /\ UNCHANGED <<store, today, http>>

StatisticsTickers ==
    /\ At("get_database_statistics", "tickers")
    /\ last' = statistics_tickers(last, store)
    /\ UNCHANGED <<store, today, http>>

StatisticsRange ==
    /\ At("get_database_statistics", "range")
    /\ last' = statistics_range(last, store, today)
    /\ UNCHANGED <<store, today, http>>

StatisticsAggregate ==
    /\ At("get_database_statistics", "aggregate")
    /\ last' = statistics_aggregate(last, store)
    /\ UNCHANGED <<store, today, http>>

StatisticsRecent ==
    /\ At("get_database_statistics", "recent")
    /\ last' = statistics_recent(last, store, today)
    /\ UNCHANGED <<store, today, http>>

StatisticsYtd ==
    /\ At("get_database_statistics", "ytd")
    /\ last' = statistics_ytd(last, store, today)
    /\ UNCHANGED <<store, today, http>>

StatisticsReturn ==
    /\ At("get_database_statistics", "return")
    /\ last' = statistics_return(last)
    /\ UNCHANGED <<store, today, http>>

\* The script ends after the call.
ReportMainEnd ==
    /\ last # Idle
    /\ last.script \in {"analyze_db.py", "db_stats.py"}
    /\ last.pc = "returned"
    /\ last' = report_main_end(last)
    /\ UNCHANGED <<store, today, http>>

\* ------------------------------------------- db_tests/clean_database.py

\* The locals of delete_ticker_data(ticker). `previous` is history: the count
\* returned by a call for the same ticker that directly precedes this one and
\* ended without an exception.
DeleteLocals(ticker, previous) ==
    [ticker |-> ticker, count_before |-> NULL, removed |-> NULL,
     count_after |-> NULL, previous |-> previous]

\* python db_tests/clean_database.py: the __main__ block calls
\* delete_ticker_data('AAPL') first.
CleanDatabaseMain ==
    /\ Ready
    /\ last' = Call("delete_ticker_data", "clean_database.py")
               @@ DeleteLocals(<<"AAPL">>, NULL)
    /\ UNCHANGED <<store, today, http>>

\* delete_ticker_data(ticker), called from another module: by a caller that
\* made no call before, or directly after a call of it has returned.
DeleteTickerData(ticker) ==
    /\ \/ /\ Ready
          /\ last' = Call("delete_ticker_data", "") @@ DeleteLocals(ticker, NULL)
       \/ /\ At("delete_ticker_data", "returned")
          /\ last.script = ""
          /\ last' = [Call("delete_ticker_data", "") EXCEPT !.writes = last.writes]
                     @@ DeleteLocals(ticker,
                                     IF last.ticker = ticker /\ last.error = ""
                                     THEN last.ret ELSE NULL)
    /\ UNCHANGED <<store, today, http>>

DeleteConnect ==
    /\ At("delete_ticker_data", "connect")
    /\ last' = delete_ticker_data_connect(last)
    /\ UNCHANGED <<store, today, http>>

DeleteCountBefore ==
    /\ At("delete_ticker_data", "count_before")
    /\ last' = delete_ticker_data_count_before(last, store)
    /\ UNCHANGED <<store, today, http>>

DeleteExecute ==
    /\ At("delete_ticker_data", "delete")
    /\ last' = delete_ticker_data_delete(last, store)
    /\ UNCHANGED <<store, today, http>>

\* A variant of DeleteCommit whose transaction is never committed: the closing
\* connection rolls the DELETE back.
DeleteCommit_dropped ==
    /\ At("delete_ticker_data", "commit")
    /\ last' = delete_ticker_data_commit(last)
    /\ UNCHANGED <<store, today, http>>

\* conn.commit(): the DELETE takes effect in the table.
DeleteCommit ==
    /\ At("delete_ticker_data", "commit")
    /\ store' = DeleteTicker(store, last.ticker)
    /\ last' = delete_ticker_data_commit(last)
    /\ UNCHANGED <<today, http>>

DeleteCountAfter ==
    /\ At("delete_ticker_data", "count_after")
    /\ last' = delete_ticker_data_count_after(last, store)
    /\ UNCHANGED <<store, today, http>>

DeleteReturn ==
    /\ At("delete_ticker_data", "return")
    /\ last' = delete_ticker_data_return(last)
    /\ UNCHANGED <<store, today, http>>

\* check_for_null_values(), called from another module
CheckForNullValues ==
    /\ Ready
    /\ last' = Call("check_for_null_values", "") @@ [null_records |-> NULL]
    /\ UNCHANGED <<store, today, http>>

CheckConnect ==
    /\ At("check_for_null_values", "connect")
    /\ last' = check_for_null_values_connect(last)
    /\ UNCHANGED <<store, today, http>>

CheckSelect ==
    /\ At("check_for_null_values", "select")
    /\ last' = check_for_null_values_select(last, store)
    /\ UNCHANGED <<store, today, http>>

CheckReturn ==
    /\ At("check_for_null_values", "return")
    /\ last' = check_for_null_values_return(last)
    /\ UNCHANGED <<store, today, http>>

\* analyze_tickers(), called from another module
AnalyzeTickers ==
    /\ Ready
    /\ last' = Call("analyze_tickers", "") @@ Locals
    /\ UNCHANGED <<store, today, http>>

AnalyzeTickersConnect ==
    /\ At("analyze_tickers", "connect")
    /\ last' = analyze_tickers_connect(last)
    /\ UNCHANGED <<store, today, http>>

AnalyzeTickersTickers ==
    /\ At("analyze_tickers", "tickers")
    /\ last' = analyze_tickers_tickers(last, store)
    /\ UNCHANGED <<store, today, http>>

AnalyzeTickersCount ==
    /\ At("analyze_tickers", "count")
    /\ last' = analyze_tickers_count(last, store)
    /\ UNCHANGED <<store, today, http>>

AnalyzeTickersFirst ==
    /\ At("analyze_tickers", "first")
    /\ last' = analyze_tickers_first(last, store)
    /\ UNCHANGED <<store, today, http>>

AnalyzeTickersLast ==
    /\ At("analyze_tickers", "last")
    /\ last' = analyze_tickers_last(last, store)
    /\ UNCHANGED <<store, today, http>>

AnalyzeTickersRecords ==
    /\ At("analyze_tickers", "records")
    /\ last' = analyze_tickers_records(last, store)
    /\ UNCHANGED <<store, today, http>>

AnalyzeTickersReturn ==
    /\ At("analyze_tickers", "return")
    /\ last' = analyze_tickers_return(last)
    /\ UNCHANGED <<store, today, http>>

\* The __main__ block of clean_database.py goes on to its next call, or ends.
CleanMainCheck ==
    /\ At("delete_ticker_data", "returned")
    /\ last.script = "clean_database.py"
    /\ last' = clean_database_main_check(last)
    /\ UNCHANGED <<store, today, http>>

CleanMainAnalyze ==
    /\ At("check_for_null_values", "returned")
    /\ last.script = "clean_database.py"
    /\ last' = clean_database_main_analyze(last)
    /\ UNCHANGED <<store, today, http>>

CleanMainSummary ==
    /\ At("analyze_tickers", "returned")
    /\ last.script = "clean_database.py"
    /\ last' = clean_database_main_summary(last)
    /\ UNCHANGED <<store, today, http>>

\* ------------------------------------------------------- specifications

\* The environment of the store tools.
Environment ==
    \/ \E ticker \in Tickers : OtherDelete(ticker)
    \/ Finish
    \/ StoreCallRaises

\* The two reports, which read the clock.
ReportNext ==
    \/ Environment
    \/ \E r \in ReportRows : Insert(r)
    \/ Tick
    \/ AnalyzeDbMain
    \/ AnalyzeDatabaseConnect
    \/ AnalyzeDatabaseTickers
    \/ AnalyzeDatabaseCount
    \/ AnalyzeDatabaseFirst
    \/ AnalyzeDatabaseLast
    \/ AnalyzeDatabaseRecords
    \/ AnalyzeDatabaseRecent
    \/ AnalyzeDatabaseReturn
    \/ DbStatsMain
    \/ StatisticsConnect
    \/ StatisticsTotal
    \/ StatisticsDistinct
    \/ StatisticsTickers
    \/ StatisticsRange
    \/ StatisticsAggregate
    \/ StatisticsRecent
    \/ StatisticsYtd
    \/ StatisticsReturn
    \/ ReportMainEnd

SpecReport == Init /\ [][ReportNext]_vars

\* The functions of clean_database.py, which do not read the clock.
CleanNext ==
    \/ Environment
    \/ \E r \in Rows : Insert(r)
    \/ CleanDatabaseMain
    \/ \E ticker \in Tickers : DeleteTickerData(ticker)
    \/ DeleteConnect
    \/ DeleteCountBefore
    \/ DeleteExecute
    \/ DeleteCommit
    \/ DeleteCountAfter
    \/ DeleteReturn
    \/ CheckForNullValues
    \/ CheckConnect
    \/ CheckSelect
    \/ CheckReturn
    \/ AnalyzeTickers
    \/ AnalyzeTickersConnect
    \/ AnalyzeTickersTickers
    \/ AnalyzeTickersCount
    \/ AnalyzeTickersFirst
    \/ AnalyzeTickersLast
    \/ AnalyzeTickersRecords
    \/ AnalyzeTickersReturn
    \/ CleanMainCheck
    \/ CleanMainAnalyze
    \/ CleanMainSummary

SpecClean == Init /\ [][CleanNext]_vars

\* delete_ticker_data called from another module, beside the other writers.
DeleteNext ==
    \/ Environment
    \/ \E r \in Rows : Insert(r)
    \/ \E ticker \in Tickers : DeleteTickerData(ticker)
    \/ DeleteConnect
    \/ DeleteCountBefore
    \/ DeleteExecute
    \/ DeleteCommit
    \/ DeleteCountAfter
    \/ DeleteReturn

SpecDelete == Init /\ [][DeleteNext]_vars

\* check_for_null_values called from another module, beside the writers.
NullsNext ==
    \/ Environment
    \/ \E r \in Rows : Insert(r)
    \/ CheckForNullValues
    \/ CheckConnect
    \/ CheckSelect
    \/ CheckReturn

SpecNulls == Init /\ [][NullsNext]_vars

\* -------------------------------------------------- the fetch client

\* client.get_daily_time_series(symbol, outputsize): the GET request goes out.
GetDailyTimeSeries(symbol, outputsize) ==
    /\ Ready
    /\ http = NoRequest
    /\ \E client \in Clients :
          http' = [state |-> "sent", caller |-> "get_daily_time_series",
                   params |-> RequestParams(client, symbol, outputsize)]
    /\ UNCHANGED <<store, today, last>>

\* python test_alpha_vantage.py [ticker]: AlphaVantageAPI() loads the
\* configuration; when that raises, test_alpha_vantage_api returns False and
\* the process exits, else the request of get_daily_time_series(ticker) goes out.
TestAlphaVantageMain(ticker) ==
    /\ Ready
    /\ http = NoRequest
    /\ \E config_ok \in BOOLEAN, config \in Configs :
          IF config_ok
          THEN /\ http' = [state |-> "sent", caller |-> "test_alpha_vantage.py",
                           params |-> RequestParams(ClientFromConfig(config),
                                                    ticker, "compact")]
               /\ UNCHANGED last
          ELSE /\ last' = [op |-> "test_alpha_vantage.py", ticker |-> ticker,
                           error |-> "ConfigLoadError", ret |-> FALSE,
                           exit_status |-> ExitStatus(FALSE)]
               /\ UNCHANGED http
    /\ UNCHANGED <<store, today>>

\* The network answers the request, or fails.
Respond(response) ==
    /\ http.state = "sent"
    /\ http' = [http EXCEPT !.state = "received"] @@ [response |-> response]
    /\ UNCHANGED <<store, today, last>>

\* get_daily_time_series returns to its caller.
ReturnDailyTimeSeries ==
    /\ http.state = "received"
    /\ http.caller = "get_daily_time_series"
    /\ \E json_error \in JsonErrors :
          last' = get_daily_time_series(http.response, json_error)
                  @@ [op |-> "get_daily_time_series", params |-> http.params,
                      response |-> http.response]
    /\ http' = NoRequest
    /\ UNCHANGED <<store, today>>

\* test_alpha_vantage_api goes on with the data, and the script exits.
TestAlphaVantageExit ==
    /\ http.state = "received"
    /\ http.caller = "test_alpha_vantage.py"
    /\ \E file_ok \in BOOLEAN, json_error \in JsonErrors :
          LET success == test_alpha_vantage_api(http.response, json_error, file_ok)
          IN  last' = [op |-> "test_alpha_vantage.py", ticker |-> http.params.symbol,
                       error |-> "", ret |-> success, response |-> http.response,
                       exit_status |-> ExitStatus(success)]
    /\ http' = NoRequest
    /\ UNCHANGED <<store, today>>

FetchNext ==
    \/ \E symbol \in Symbols, outputsize \in OutputSizes :
          GetDailyTimeSeries(symbol, outputsize)
    \/ \E ticker \in Symbols : TestAlphaVantageMain(ticker)
    \/ \E response \in Responses : Respond(response)
    \/ ReturnDailyTimeSeries
    \/ TestAlphaVantageExit
    \/ Finish

SpecFetch == Init /\ [][FetchNext]_vars

\* ------------------------------------------- the coverage figures alone

\* First and last dates and record counts of a ticker's rows.
CovDates ==
    {<<2020, 1, 2>>, <<2020, 1, 3>>, <<2020, 2, 29>>, <<2021, 1, 1>>,
     <<2022, 5, 1>>, <<2023, 1, 2>>}

CovCounts == {1, 2, 252, 750, 756}

CovInit ==
    /\ store = EmptyStore
    /\ today = Strptime(ClockStart)
    /\ http = NoRequest
    /\ \E first_date \in CovDates, last_date \in CovDates, record_count \in CovCounts :
          /\ DateLe(first_date, last_date)
          /\ last = [op |-> "rows", first_date |-> first_date,
                     last_date |-> last_date, record_count |-> record_count]

\* The per-ticker figures of the reports for such a ticker, and the
\* 'Completeness' cell f"{completeness:.1%}" in tenths of a percent.
ComputeCoverage ==
    /\ last.op = "rows"
    /\ LET cov == Coverage(last.first_date, last.last_date, last.record_count)
       IN  /\ ~cov.completeness.raised
           /\ \E text \in PercentTexts(cov.completeness) :
                 last' = [op |-> "coverage", first_date |-> last.first_date,
                          last_date |-> last.last_date,
                          record_count |-> last.record_count,
                          date_range_days |-> cov.date_range_days,
                          expected |-> cov.expected,
                          completeness |-> cov.completeness,
                          Completeness |-> text]
    /\ UNCHANGED <<store, today, http>>

CovNext == ComputeCoverage

SpecCov == CovInit /\ [][CovNext]_vars


\* ------------------------------------------------------------ properties

IsReport == last.op \in {"analyze_database", "get_database_statistics"}

\* The call followed has returned (and its script may have ended).
Returned(op) == last.op = op /\ last.pc \in {"returned", "exited"}

\* No other process has written to the table since the call followed began:
\* the table is the one every query of the call has read.
Undisturbed == last.writes = 0

\* The rows a report has appended to its ticker_data so far.
Reported == {last.ticker_data[k] : k \in 1..Len(last.ticker_data)}

\* C1: for every ticker analyze_database or get_database_statistics
\* processes, completeness is record_count / expected_trading_days when the
\* expected number is positive and the sentinel 0 when it is 0 (as it is for a
\* ticker with a single record), and no run ends in a division error.
C1_CompletenessGuarded ==
    IsReport =>
        /\ last.error # "ZeroDivisionError"
        /\ \A r \in Reported :
              /\ ~r.completeness.raised
              /\ r.completeness.den > 0
              /\ r.expected > 0 =>
                    r.completeness.num * r.expected = r.record_count * r.completeness.den
              /\ r.expected <= 0 => r.completeness.num = 0
              /\ (Undisturbed /\ r.record_count = 1) =>
                    r.date_range_days = 0 /\ r.expected = 0

\* A report processed a ticker with exactly one record and gave it the
\* completeness 0.
C1_Witness ==
    /\ IsReport
    /\ Undisturbed
    /\ \E r \in Reported :
          r.record_count = 1 /\ r.expected = 0 /\ r.completeness.num = 0

\* C2: span_days is the day difference of the two dates without a +1 (going
\* span_days days on from first_date ends on last_date), expected_trading_days
\* is floor(span_days * 252 / 365), a span of 0 gives 0, and the dates
\* 2020-01-02 .. 2023-01-02 give 1096 and 756, with 750 rows rendered as 99.2%.
C2_ExpectedTradingDays ==
    last.op = "coverage" =>
        /\ last.date_range_days >= 0
        /\ Strftime(Strptime(last.first_date) + last.date_range_days) = last.last_date
        /\ last.expected * 365 <= last.date_range_days * 252
        /\ last.date_range_days * 252 < (last.expected + 1) * 365
        /\ last.date_range_days = 0 => last.expected = 0
        /\ (last.first_date = <<2020, 1, 2>> /\ last.last_date = <<2023, 1, 2>>) =>
              /\ last.date_range_days = 1096
              /\ last.expected = 756
              /\ last.record_count = 750 => last.Completeness = 992

\* The figures of the example were computed: 1096 days, 750 rows, "99.2%".
C2_Witness ==
    /\ last.op = "coverage"
    /\ last.date_range_days = 1096
    /\ last.record_count = 750
    /\ last.Completeness = 992

\* C3 as claimed: when analyze_database has run over a table no other
\* process wrote to, and no store call failed, every ticker enumerated from
\* the table has at least one row and is reported with the MIN(date) and
\* MAX(date) of its rows, which is what get_database_statistics computes, and
\* first_date <= last_date, whatever the table holds.
C3_OrderByIsMinMax ==
    (Returned("analyze_database") /\ Undisturbed /\ last.error # "sqlite3.Error") =>
        LET tickers == SelectDistinctTickers(store)
        IN  \A k \in 1..Len(tickers) :
              /\ CountTicker(store, tickers[k]) >= 1
              /\ k <= Len(last.ticker_data)
              /\ last.ticker_data[k].first_date = MinDate(TickerRows(store, tickers[k]))
              /\ last.ticker_data[k].last_date = MaxDate(TickerRows(store, tickers[k]))
              /\ DateLe(last.ticker_data[k].first_date, last.ticker_data[k].last_date)

\* The dates the clock has shown so far.
ClockValues == Strptime(ClockStart)..today

\* C4: for every ticker of a report over a table content, whatever the clock
\* shows, recent_count is the number of the ticker's rows dated on or after
\* the day 1095 days before the current date, ytd_count the number of its rows
\* dated in the current year or later, and both are at most record_count.
C4_WindowCounts ==
    (IsReport /\ Undisturbed) =>
        \A r \in Reported :
            LET mine == {i \in Instances(store) : i[1].ticker = r.Ticker /\ i[1].date # NULL}
            IN  /\ r.recent_count <= r.record_count
                /\ \E now \in ClockValues :
                      /\ r.three_years_ago = Strftime(now - 1095)
                      /\ r.recent_count =
                            Cardinality({i \in mine : Strptime(i[1].date) >= now - 1095})
                /\ last.op = "get_database_statistics" =>
                      /\ r.ytd_count <= r.record_count
                      /\ \E now \in ClockValues :
                            /\ r.ytd = <<Strftime(now)[1], 1, 1>>
                            /\ r.ytd_count =
                                  Cardinality({i \in mine : i[1].date[1] >= Strftime(now)[1]})

\* get_database_statistics reported a ticker with two records of which one is
\* recent and one is of this year.
C4_Witness ==
    /\ last.op = "get_database_statistics"
    /\ Undisturbed
    /\ \E r \in Reported :
          r.record_count = 2 /\ r.recent_count = 1 /\ r.ytd_count = 1

\* Every row of the table has all seven columns.
AllRowsComplete == \A i \in Instances(store) : \A f \in Fields : i[1][f] # NULL

\* C5: a call of check_for_null_values in which no store call fails returns
\* True exactly when every row of the table has all seven columns non-NULL; a
\* call returns False whenever some row has a NULL.
C5_NullCheckFlag ==
    (Returned("check_for_null_values") /\ Undisturbed) =>
        /\ last.error = "" => (last.ret[1] <=> AllRowsComplete)
        /\ ~AllRowsComplete => ~last.ret[1]

\* check_for_null_values returned True on a table of two rows.
C5_Witness ==
    /\ Returned("check_for_null_values")
    /\ Undisturbed
    /\ last.error = ""
    /\ last.ret = <<TRUE>>
    /\ CountAll(store) = 2

\* The rows of the table with some NULL column, ticker t and date d (NULL
\* being a ticker and a date like any other).
IncompleteAt(t, d) ==
    {i \in Instances(store) :
        /\ i[1].ticker = t
        /\ i[1].date = d
        /\ \E f \in Fields : i[1][f] = NULL}

\* C6: the report of check_for_null_values has exactly one entry for every
\* (ticker, date) pair with an incomplete row, none for any other pair, and the
\* entry's count is the number of incomplete rows of the pair; the table with
\* the single row ("ABC", "2022-05-01", close NULL) gives exactly that entry.
C6_NullReportGroups ==
    (Returned("check_for_null_values") /\ Undisturbed /\ last.error = "") =>
        LET null_records == last.null_records[1]
        IN  /\ \A t \in Tickers \cup {NULL}, d \in Dates \cup {NULL} :
                  LET entries == {e \in null_records : e.ticker = t /\ e.date = d}
                  IN  IF IncompleteAt(t, d) = {} THEN entries = {}
                      ELSE /\ Cardinality(entries) = 1
                           /\ \A e \in entries : e.count = Cardinality(IncompleteAt(t, d))
            /\ \A e \in null_records :
                  e.ticker \in Tickers \cup {NULL} /\ e.date \in Dates \cup {NULL}
            /\ store = [EmptyStore EXCEPT
                           ![[CompleteRow(<<"ABC">>, <<2022, 5, 1>>) EXCEPT !.close = NULL]] = 1]
                  => null_records =
                        {[ticker |-> <<"ABC">>, date |-> <<2022, 5, 1>>, count |-> 1]}

\* The report of a table holding two incomplete rows of one (ticker, date)
\* pair: one entry, with count 2.
C6_Witness ==
    /\ Returned("check_for_null_values")
    /\ Undisturbed
    /\ last.error = ""
    /\ Cardinality(last.null_records[1]) = 1
    /\ \E e \in last.null_records[1] : e.count = 2 /\ e.ticker = <<"ABC">>

\* A call of delete_ticker_data that returned without an exception, with no
\* other writer: no row of the ticker is left, and the count returned is the
\* count before minus the count after, not negative, and the number of rows
\* the ticker had.
DeleteReturned ==
    (Returned("delete_ticker_data") /\ Undisturbed /\ last.error = "") =>
        /\ CountTicker(store, last.ticker) = 0
        /\ last.ret[1] = last.count_before[1] - last.count_after[1]
        /\ last.ret[1] >= 0
        /\ last.ret = last.count_before
        /\ last.ret = last.removed

\* The commit of delete_ticker_data removes every row of the ticker and no
\* row of another ticker.
DeleteCommitFrame ==
    (At("delete_ticker_data", "commit") /\ last'.pc = "count_after") =>
        \A r \in Rows :
            store'[r] = IF r.ticker = last.ticker THEN 0 ELSE store[r]

\* C7: delete_ticker_data(ticker) removes every row of the ticker and no row
\* of any other ticker, and returns the ticker's row count before the delete
\* minus its row count after it: a non-negative number, the ticker's prior row
\* count, when nothing else writes to the table.
C7_DeleteFrame == []DeleteReturned /\ [][DeleteCommitFrame]_vars

\* A delete removed a row and left a row of another ticker in place.
C7_Witness ==
    /\ Returned("delete_ticker_data")
    /\ Undisturbed
    /\ last.error = ""
    /\ last.ret = <<1>>
    /\ CountAll(store) = 1

\* A call that directly follows a call for the same ticker which ended
\* without an exception, with no other writer: it returns 0 and has removed
\* nothing. A call that found no row of the ticker returns 0; and a call
\* raises only when a store call fails.
SecondDeleteReturned ==
    last.op = "delete_ticker_data" =>
        /\ last.error \in {"", "sqlite3.Error"}
        /\ (last.pc = "returned" /\ Undisturbed /\ last.error = "") =>
              /\ last.previous # NULL =>
                    /\ last.ret = <<0>>
                    /\ last.removed = <<0>>
                    /\ CountTicker(store, last.ticker) = 0
              /\ last.count_before = <<0>> => last.ret = <<0>>

\* The commit of such a second call leaves the table as the first call left
\* it.
SecondDeleteFrame ==
    (At("delete_ticker_data", "commit") /\ Undisturbed
        /\ (last.previous # NULL \/ last.count_before = <<0>>)) =>
        store' = store

\* C8: delete_ticker_data is idempotent: the second of two calls in
\* succession for the same ticker leaves the table as after the first call
\* and returns 0; deleting a ticker without rows returns 0 and is not an
\* error.
C8_DeleteIdempotent == []SecondDeleteReturned /\ [][SecondDeleteFrame]_vars

\* The second of two calls for a ticker of which the first removed two rows.
C8_Witness ==
    /\ At("delete_ticker_data", "returned")
    /\ Undisturbed
    /\ last.previous = <<2>>
    /\ last.error = ""
    /\ last.ret = <<0>>

\* The response is one of the failures of the fetch: no response, an HTTP
\* error status, a body that is not JSON, or a JSON object with the key
\* "Error Message".
FetchFailure(response) ==
    \/ response.net # "ok"
    \/ response.status >= 400
    \/ ~response.valid
    \/ (response.data.kind = "dict" /\ "Error Message" \in response.data.members)

\* C9: get_daily_time_series lets no exception out; it returns None on every
\* failure of the fetch, and what it returns otherwise, if not None, is the
\* parsed body.
C9_FetchNeverRaises ==
    last.op = "get_daily_time_series" =>
        /\ last.raised = ""
        /\ FetchFailure(last.response) => last.ret = NULL
        /\ last.ret # NULL => (~FetchFailure(last.response) /\ last.ret = <<last.response.data>>)
        /\ (~FetchFailure(last.response) /\ last.response.data.kind = "dict") =>
              last.ret = <<last.response.data>>

\* A 200 response whose JSON object has the key "Error Message" gave None.
C9_Witness ==
    /\ last.op = "get_daily_time_series"
    /\ last.response.net = "ok"
    /\ last.response.status = 200
    /\ last.response.valid
    /\ "Error Message" \in last.response.data.members
    /\ last.response.data.kind = "dict"
    /\ last.ret = NULL

\* C10 as claimed: a run of analyze_db.py or db_stats.py whose operation
\* failed has printed a failure message, got the failure flag and ends with a
\* non-zero exit status, and a run that succeeded ends with status 0.
C10_FailedRunExitsNonZero ==
    (IsReport /\ last.pc = "exited") =>
        /\ last.error # "" =>
              (last.printed # "" /\ last.ret = <<FALSE>> /\ last.exit_status # <<0>>)
        /\ last.error = "" => (last.ret = <<TRUE>> /\ last.exit_status = <<0>>)

\* C11 as claimed: a run of analyze_database or get_database_statistics over
\* a table without rows returns the failure flag False.
C11_EmptyStoreIsFailure ==
    (IsReport /\ last.pc \in {"returned", "exited"} /\ Undisturbed
        /\ CountAll(store) = 0) =>
        last.ret = <<FALSE>>

\* C12 as claimed: when analyze_database, get_database_statistics,
\* delete_ticker_data, check_for_null_values or analyze_tickers has returned,
\* the connection it acquired has been closed, also when a query or a later
\* statement raised.
C12_ConnectionReleased ==
    (/\ last.op \in {"analyze_database", "get_database_statistics",
                     "delete_ticker_data", "check_for_null_values", "analyze_tickers"}
     /\ last.pc \in {"returned", "exited"}) =>
        last.conn # "open"

\* C13 as claimed: whatever a concurrent writer does to the ticker's rows
\* while delete_ticker_data runs, a call that ends without an exception
\* returns the number of rows its own DELETE removed, and never a negative
\* number.
C13_DeleteCountIsOwnEffect ==
    (Returned("delete_ticker_data") /\ last.error = "") =>
        /\ last.ret = last.removed
        /\ last.ret[1] >= 0

\* C14 as claimed: the rows of one run of analyze_database or of
\* get_database_statistics were all computed against the same cutoff dates,
\* three_years_ago and, in get_database_statistics, ytd, also when the date
\* changes while the loop runs.
C14_OneClockPerReport ==
    IsReport =>
        \A i, j \in 1..Len(last.ticker_data) :
            /\ last.ticker_data[i].three_years_ago = last.ticker_data[j].three_years_ago
            /\ last.op = "get_database_statistics" =>
                  last.ticker_data[i].ytd = last.ticker_data[j].ytd

====
